---- MODULE Spec2Model ----
(***************************************************************************)
(* Model of script/gen_gallery.py: the gallery generator of SfePy.         *)
(* The driver main() runs generate_images, generate_thumbnails and         *)
(* generate_rst_files over the example files found under examples_dir.     *)
(*                                                                         *)
(* File names and page contents are sequences of one-character strings,    *)
(* so that replace, splitext, basename, dirname and join act on them as    *)
(* the Python string operations do, and a page is the sequence of the      *)
(* bytes the program writes into it (the element "BACKTICK" stands for    *)
(* the one backquote character of the page template).                     *)
(***************************************************************************)
EXTENDS Integers, Sequences, FiniteSets, TLC

(***************************************************************************)
(* Bounds of the model.                                                    *)
(***************************************************************************)
\* the most example files a corpus holds
MaxExamples == 2
\* the most times generate_rst_files is run in succession
MaxRuns == 2

(***************************************************************************)
(* Python string operations used by the script.                            *)
(***************************************************************************)
\* the characters of file names, in ASCII order
Ascii ==
    <<"-",".","/","0","1","2","3","4","5","6","7","8","9","=","A","B","C",
    "D","E","F","G","H","I","J","K","L","M","N","O","P","Q","R","S","T","U",
    "V","W","X","Y","Z","_","a","b","c","d","e","f","g","h","i","j","k","l",
    "m","n","o","p","q","r","s","t","u","v","w","x","y","z">>

Ord(c) == CHOOSE k \in 1..Len(Ascii) : Ascii[k] = c

\* s[k:] of Python, k counted from 0
From(s, k) == SubSeq(s, k + 1, Len(s))

\* s.startswith(pat, k - 1), k counted from 1
MatchAt(s, k, pat) ==
    /\ k + Len(pat) - 1 <= Len(s)
    /\ SubSeq(s, k, k + Len(pat) - 1) = pat

\* str.replace: every non-overlapping occurrence of old, left to right
RECURSIVE ReplaceFrom(_, _, _, _)
ReplaceFrom(s, k, old, new) ==
    LET hits == {m \in k..Len(s) : MatchAt(s, m, old)}
    IN IF hits = {} THEN SubSeq(s, k, Len(s))
       ELSE LET m == CHOOSE h \in hits : \A g \in hits : h <= g
            IN SubSeq(s, k, m - 1) \o new
                   \o ReplaceFrom(s, m + Len(old), old, new)

Replace(s, old, new) == ReplaceFrom(s, 1, old, new)

\* str.count of a single character
Count(s, c) == Cardinality({k \in 1..Len(s) : s[k] = c})

\* str.rfind of a single character, 0 when absent, else the 1-based place
RFind(s, c) ==
    IF \E k \in 1..Len(s) : s[k] = c
    THEN CHOOSE k \in 1..Len(s) : s[k] = c /\ \A m \in (k+1)..Len(s) : s[m] # c
    ELSE 0

\* c * n
RECURSIVE Repeat(_, _)
Repeat(s, n) == IF n <= 0 THEN <<>> ELSE s \o Repeat(s, n - 1)

\* os.path.sep
sep == <<"/">>

\* os.path.basename
basename(p) == From(p, RFind(p, "/"))

\* str.rstrip('/')
RECURSIVE RStripSep(_)
RStripSep(s) ==
    IF s # <<>> /\ s[Len(s)] = "/" THEN RStripSep(SubSeq(s, 1, Len(s) - 1))
    ELSE s

\* os.path.dirname
dirname(p) ==
    LET head == SubSeq(p, 1, RFind(p, "/"))
    IN IF head # <<>> /\ head # Repeat(sep, Len(head)) THEN RStripSep(head)
       ELSE head

\* os.path.splitext(p)[0]: the extension starts at the last dot of the last
\* component, unless only dots precede it there
splitext0(p) ==
    LET sepIndex == RFind(p, "/")
        dotIndex == RFind(p, ".")
    IN IF /\ dotIndex > sepIndex
          /\ \E k \in (sepIndex + 1)..(dotIndex - 1) : p[k] # "."
       THEN SubSeq(p, 1, dotIndex - 1)
       ELSE p

\* os.path.join of two parts
join(a, b) ==
    IF b # <<>> /\ b[1] = "/" THEN b
    ELSE IF a = <<>> \/ a[Len(a)] = "/" THEN a \o b
    ELSE a \o sep \o b

\* the order of Python strings
RECURSIVE StrLess(_, _)
StrLess(a, b) ==
    IF b = <<>> THEN FALSE
    ELSE IF a = <<>> THEN TRUE
    ELSE IF a[1] = b[1] THEN StrLess(Tail(a), Tail(b))
    ELSE Ord(a[1]) < Ord(b[1])

(***************************************************************************)
(* Directories and names.                                                  *)
(***************************************************************************)
\* sfepy.data_dir, the installation directory
data_dir ==
    <<"/","d">>
\* os.path.realpath of the default --examples-dir
examples_dir ==
    <<"/","d","/","e","x","a","m","p","l","e","s">>
\* the directory of the default --output gallery/gallery.html
gallery_dir ==
    <<"/","d","/","g","a","l","l","e","r","y">>
py_ext ==
    <<".","p","y">>
rst_ext ==
    <<".","r","s","t">>
png_ext ==
    <<".","p","n","g">>
index_rst ==
    <<"i","n","d","e","x",".","r","s","t">>
omitted_name ==
    <<"l","i","n","e","a","r","_","e","l","a","s","t","i","c","_","m","M",
    ".","p","y">>
images_name ==
    <<"i","m","a","g","e","s">>
thumbnails_name ==
    <<"t","h","u","m","b","n","a","i","l","s">>
examples_name ==
    <<"e","x","a","m","p","l","e","s">>
result_name ==
    <<"r","e","s","u","l","t">>
vtk_ext ==
    <<".","v","t","k">>
step_suffix ==
    <<".","0","5">>
sfepy_name ==
    <<"s","f","e","p","y">>
gallery_title ==
    <<"S","f","e","P","y"," ","a","u","t","o","g","e","n","e","r","a","t",
    "e","d"," ","g","a","l","l","e","r","y">>
indent ==
    <<" "," "," "," ">>
newline ==
    <<"\n">>
slash_index_nl ==
    <<"/","i","n","d","e","x","\n">>
parent_marker ==
    <<"/",".",".">>
dotdot_sep ==
    <<".",".","/">>

\* the exclusion list
omits == {omitted_name}

\* the directories main() derives from the default options
images_dir == join(gallery_dir, images_name)
thumbnails_dir == join(images_dir, thumbnails_name)
rst_dir == join(gallery_dir, examples_name)

\* the temporary directory of generate_images and the trunk of its results
output_dir == <<"/", "t">>
trunk == join(output_dir, result_name)

(***************************************************************************)
(* Path mapper.                                                            *)
(***************************************************************************)
\* ex_filename.replace(examples_dir, '')[1:]
ebase_of(ex_filename) == From(Replace(ex_filename, examples_dir, <<>>), 1)

\* _get_fig_filename: the pair (fig_base, fig_filename)
get_fig_filename(ebase, dir) ==
    LET fig_base == Replace(splitext0(ebase), sep, <<"-">>)
    IN <<fig_base, join(dir, fig_base \o png_ext)>>

\* _make_sphinx_path
make_sphinx_path(path, relative) ==
    IF relative
    THEN LET aux == Replace(path, data_dir, <<>>)
             prefix == Repeat(dotdot_sep, Count(aux, "/"))
         IN SubSeq(prefix, 1, Len(prefix) - 1) \o aux
    ELSE Replace(path, data_dir, parent_marker)

(***************************************************************************)
(* Page templates.                                                         *)
(***************************************************************************)
index_1 ==
    <<".","."," ","_">>
index_2 ==
    <<"-","i","n","d","e","x",":","\n","\n">>
index_3 ==
    <<" ","e","x","a","m","p","l","e","s","\n">>
index_4 ==
    <<"=","=","=","=","=","=","=","=","=","\n","\n",".","."," ","t","o","c",
    "t","r","e","e",":",":","\n"," "," "," "," ",":","m","a","x","d","e",
    "p","t","h",":"," ","2","\n","\n">>
include_1 ==
    <<".","."," ","_">>
include_2 ==
    <<":","\n","\n">>
include_3 ==
    <<"\n">>
include_4 ==
    <<"\n","\n",".","."," ","i","m","a","g","e",":",":"," ">>
include_5 ==
    <<"\n","\n",":","d","o","w","n","l","o","a","d",":","BACKTICK","s","o","u","r",
    "c","e"," ","c","o","d","e"," ","<">>
include_6 ==
    <<">","BACKTICK","\n","\n",".","."," ","l","i","t","e","r","a","l","i","n","c",
    "l","u","d","e",":",":"," ">>
include_7 ==
    <<"\n","\n">>

\* _index % (a, b, c)
index_text(a, b, c) ==
    index_1 \o a \o index_2 \o b \o index_3 \o c \o index_4

\* _include % (a, b, c, d, e, f)
include_text(a, b, c, d, e, f) ==
    include_1 \o a \o include_2 \o b \o include_3 \o c \o include_4 \o d
        \o include_5 \o e \o include_6 \o f \o include_7

\* the length of the rule under the title of the main index
TitleRule == 27

(***************************************************************************)
(* The example corpus.                                                     *)
(***************************************************************************)
ex_poisson_pbc ==
    <<"p","o","i","s","s","o","n","/","p","e","r","i","o","d","i","c","_",
    "b","o","u","n","d","a","r","y","_","c","o","n","d","i","t","i","o","n",
    ".","p","y">>
ex_poisson_dash_pbc ==
    <<"p","o","i","s","s","o","n","-","p","e","r","i","o","d","i","c","_",
    "b","o","u","n","d","a","r","y","_","c","o","n","d","i","t","i","o","n",
    ".","p","y">>
ex_poisson_index ==
    <<"p","o","i","s","s","o","n","/","i","n","d","e","x",".","p","y">>
ex_b_omitted ==
    <<"b","/","l","i","n","e","a","r","_","e","l","a","s","t","i","c","_",
    "m","M",".","p","y">>
ex_b_y ==
    <<"b","/","y",".","p","y">>
ex_postproc ==
    <<"l","i","n","e","a","r","_","h","o","m","o","g","e","n","i","z","a",
    "t","i","o","n","_","p","o","s","t","p","r","o","c",".","p","y">>

\* the example files a corpus is drawn from, relative to examples_dir
Candidates ==
    {ex_poisson_pbc, ex_poisson_dash_pbc, ex_poisson_index, ex_b_omitted,
     ex_b_y, ex_postproc}

\* locate_files('*.py', examples_dir): the files found, in any order, each
\* once, as paths under examples_dir
locate_files ==
    LET found == {join(examples_dir, c) : c \in Candidates}
    IN UNION {{s \in [1..n -> found] :
                  \A j, k \in 1..n : j # k => s[j] # s[k]} :
              n \in 0..MaxExamples}

(***************************************************************************)
(* File objects.  A file opened for writing is truncated when it is        *)
(* opened; what is written goes to the buffer of the file object and       *)
(* reaches the file, at the offset of the file object, when the object is  *)
(* closed (the pages are far shorter than a buffer).  Several file         *)
(* objects may be open on one path.                                        *)
(***************************************************************************)
Handles == {"mfd", "ifd", "fd"}

NoFiles == [p \in {} |-> <<>>]

\* a mode that keeps what the file holds and writes after it
OpenMode_append == "a"

\* the mode of every open() of generate_rst_files
OpenMode == "w"

\* the state of the documentation tree while generate_rst_files runs:
\* the files, the open file objects, and the record of what was opened
\* and listed
NewFs(files) ==
    [files  |-> files,
     buf    |-> [h \in Handles |-> <<>>],
     name   |-> [h \in Handles |-> <<>>],
     opened |-> <<>>,
     listed |-> <<>>]

\* h = open(p, OpenMode)
Open(fs, h, p, what) ==
    [fs EXCEPT
       !.files  = IF OpenMode = "w" \/ p \notin DOMAIN fs.files
                  THEN (p :> <<>>) @@ fs.files
                  ELSE fs.files,
       !.buf    = [@ EXCEPT ![h] = <<>>],
       !.name   = [@ EXCEPT ![h] = p],
       !.opened = Append(@, <<p, what>>)]

\* h.write(text)
Write(fs, h, text) == [fs EXCEPT !.buf = [@ EXCEPT ![h] = @ \o text]]

\* h.close(): the buffer is written over the start of the file, or after
\* its end when the file was opened for appending
Close(fs, h) ==
    LET p   == fs.name[h]
        cur == fs.files[p]
        b   == fs.buf[h]
        new == IF OpenMode = "w" THEN b \o From(cur, Len(b)) ELSE cur \o b
    IN [fs EXCEPT !.files = (p :> new) @@ fs.files,
                  !.buf   = [@ EXCEPT ![h] = <<>>]]

(***************************************************************************)
(* generate_rst_files.                                                     *)
(***************************************************************************)
\* base in omits, in generate_rst_files
omit_rst(base) == base \in omits

\* the first loop: dir_map.setdefault(base_dir, []).append(...)
RECURSIVE build_dir_map(_, _)
build_dir_map(exs, dir_map) ==
    IF exs = <<>> THEN dir_map
    ELSE LET ex_filename  == Head(exs)
             base         == basename(ex_filename)
             ebase        == ebase_of(ex_filename)
             base_dir     == dirname(ebase)
             rst_filename == Replace(basename(ex_filename), py_ext, rst_ext)
             old          == IF base_dir \in DOMAIN dir_map
                             THEN dir_map[base_dir] ELSE <<>>
         IN IF omit_rst(base) THEN build_dir_map(Tail(exs), dir_map)
            ELSE build_dir_map(Tail(exs),
                     (base_dir :> Append(old, <<ex_filename, rst_filename>>))
                         @@ dir_map)

RECURSIVE SetToSeq(_)
SetToSeq(S) ==
    IF S = {} THEN <<>>
    ELSE LET x == CHOOSE y \in S : TRUE IN <<x>> \o SetToSeq(S \ {x})

\* ordered_iteritems: the keys of the dictionary in sorted order
ordered_keys(dir_map) == SortSeq(SetToSeq(DOMAIN dir_map), StrLess)

\* the loop over the examples of one directory
RECURSIVE write_examples(_, _, _)
write_examples(fs, full_dirname, filenames) ==
    IF filenames = <<>> THEN fs
    ELSE LET ex_filename       == Head(filenames)[1]
             rst_filename      == Head(filenames)[2]
             full_rst_filename == join(full_dirname, rst_filename)
             rst_filename_ns   == Replace(rst_filename, rst_ext, <<>>)
             ebase             == ebase_of(ex_filename)
             fig               == get_fig_filename(ebase, images_dir)
             rst_fig_filename  == make_sphinx_path(fig[2], FALSE)
             rst_ex_filename   == make_sphinx_path(ex_filename, FALSE)
             src_ex_filename   == make_sphinx_path(ex_filename, TRUE)
             fs1 == [Write(fs, "ifd", indent \o rst_filename_ns \o newline)
                       EXCEPT !.listed = Append(@, <<ex_filename,
                                                     rst_filename_ns>>)]
             fs2 == Open(fs1, "fd", full_rst_filename,
                         <<"example", ex_filename>>)
             fs3 == Write(fs2, "fd",
                       include_text(fig[1], ebase,
                                    Repeat(<<"=">>, Len(ebase)),
                                    rst_fig_filename, src_ex_filename,
                                    rst_ex_filename))
             fs4 == Close(fs3, "fd")
         IN write_examples(fs4, full_dirname, Tail(filenames))

\* the loop over the directories
RECURSIVE write_dirs(_, _, _)
write_dirs(fs, dir_map, keys) ==
    IF keys = <<>> THEN fs
    ELSE LET dn           == Head(keys)
             full_dirname == join(rst_dir, dn)
             fs1 == Open(fs, "ifd", join(full_dirname, index_rst),
                         <<"directory", dn>>)
             fs2 == Write(fs1, "ifd",
                          index_text(dn, dn, Repeat(<<"=">>, Len(dn))))
             fs3 == write_examples(fs2, full_dirname, dir_map[dn])
             fs4 == Close(fs3, "ifd")
             fs5 == Write(fs4, "mfd", indent \o dn \o slash_index_nl)
         IN write_dirs(fs5, dir_map, Tail(keys))

\* generate_rst_files(rst_dir, examples_dir, images_dir) on the files of
\* the documentation tree
generate_rst_files(files, exs) ==
    LET dir_map == build_dir_map(exs, NoFiles)
        fs1 == Open(NewFs(files), "mfd", join(rst_dir, index_rst),
                    <<"main", <<>>>>)
        fs2 == Write(fs1, "mfd",
                     index_text(sfepy_name, gallery_title,
                                Repeat(<<"=">>, TitleRule)))
        fs3 == write_dirs(fs2, dir_map, ordered_keys(dir_map))
    IN Close(fs3, "mfd")

(***************************************************************************)
(* The state of a run of the script.                                       *)
(***************************************************************************)
VARIABLES
    examples,    \* what locate_files yields for the corpus of the run
    no_images,   \* options.no_images
    fresh,       \* the output directories were empty when the run started
    pc,          \* the stage main() is in
    i,           \* the place of generate_images in the examples
    scratch,     \* the files under output_dir
    images,      \* the files under images_dir
    todo,        \* the images generate_thumbnails has still to scale
    thumbnails,  \* the files under thumbnails_dir
    pages,       \* the files under rst_dir, with their contents
    solved,      \* the calls of pde_solve: <<example, outcome>>
    rendered,    \* the calls of the viewer: <<example, image, outcome>>
    thumbed,     \* the calls of image.thumbnail: <<image, thumbnail, outcome>>
    log,         \* the messages given to output() by generate_images
    opened,      \* the files the last generate_rst_files opened
    listed,      \* the entries the last generate_rst_files put in indexes
    runs,        \* how many times generate_rst_files has run
    prev_pages   \* the files under rst_dir before its last run

vars ==
    <<examples, no_images, fresh, pc, i, scratch, images, todo, thumbnails,
      pages, solved, rendered, thumbed, log, opened, listed, runs,
      prev_pages>>

stale_text ==
    <<"s","t","a","l","e"," ","p","a","g","e"," ","o","f"," ","a","n"," ",
    "e","a","r","l","i","e","r"," ","c","o","r","p","u","s","\n">>
old_rst ==
    <<"o","l","d",".","r","s","t">>
b_y_rst ==
    <<"b","/","y",".","r","s","t">>
stale_png ==
    <<"b","-","l","i","n","e","a","r","_","e","l","a","s","t","i","c","_",
    "m","M",".","p","n","g">>

\* what output directories left by an earlier run may hold
StalePages ==
    (join(rst_dir, old_rst) :> stale_text)
        @@ (join(rst_dir, b_y_rst) :> stale_text)
StaleImages == {join(images_dir, stale_png)}

Init ==
    /\ examples \in locate_files
    /\ no_images \in BOOLEAN
    /\ fresh \in BOOLEAN
    /\ pc = "main"
    /\ i = 1
    /\ scratch = {}
    /\ images = (IF fresh THEN {} ELSE StaleImages)
    /\ todo = {}
    /\ thumbnails = {}
    /\ pages = (IF fresh THEN NoFiles ELSE StalePages)
    /\ solved = <<>>
    /\ rendered = <<>>
    /\ thumbed = {}
    /\ log = <<>>
    /\ opened = <<>>
    /\ listed = <<>>
    /\ runs = 0
    /\ prev_pages = NoFiles

(***************************************************************************)
(* main.                                                                   *)
(***************************************************************************)
\* main() that runs the image stages whatever options.no_images is
main_ignores_option ==
    /\ pc = "main"
    /\ pc' = "generate_images"
    /\ i' = 1
    /\ scratch' = {}
    /\ UNCHANGED <<examples, no_images, fresh, images, todo, thumbnails,
                   pages, solved, rendered, thumbed, log, opened, listed,
                   runs, prev_pages>>

\* main() up to the first stage it runs; generate_images starts with an
\* empty temporary directory
main ==
    /\ pc = "main"
    /\ pc' = (IF ~no_images THEN "generate_images" ELSE "generate_rst_files")
    /\ i' = 1
    /\ scratch' = {}
    /\ UNCHANGED <<examples, no_images, fresh, images, todo, thumbnails,
                   pages, solved, rendered, thumbed, log, opened, listed,
                   runs, prev_pages>>

(***************************************************************************)
(* generate_images: one action for each way an iteration of its loop can   *)
(* go.                                                                     *)
(***************************************************************************)
\* a loop that skips no example
omit_none(base) == FALSE

\* base in omits, in generate_images
omit_image(base) == base \in omits

\* the loop is at an example
in_loop == pc = "generate_images" /\ i <= Len(examples)

\* what a failing solve may leave under output_dir
Leftovers == {{}, {trunk \o vtk_ext}}

\* the result file of a solved problem: trunk + '.vtk' without time
\* stepping, else the name with the suffix of the last step
result_file(ts_conf) ==
    IF ~ts_conf THEN trunk \o vtk_ext ELSE trunk \o step_suffix \o vtk_ext

\* if base in omits: continue
skip_omitted ==
    /\ in_loop
    /\ omit_image(basename(examples[i]))
    /\ i' = i + 1
    /\ UNCHANGED <<examples, no_images, fresh, pc, scratch, images, todo,
                   thumbnails, pages, solved, rendered, thumbed, log, opened,
                   listed, runs, prev_pages>>

\* a handler that treats KeyboardInterrupt as any other error
solve_interrupted_swallowed ==
    /\ pc = "generate_images" /\ i <= Len(examples)
    /\ ~(basename(examples[i]) \in omits)
    /\ \E left \in {{}, {trunk \o vtk_ext}} : scratch' = scratch \cup left
    /\ solved' = Append(solved, <<examples[i], "interrupt">>)
    /\ log' = log \o <<"trying", "***** failed! *****", "...done">>
    /\ i' = i + 1
    /\ UNCHANGED <<examples, no_images, fresh, pc, images, todo, thumbnails,
                   pages, rendered, thumbed, opened, listed, runs,
                   prev_pages>>

\* pde_solve raises KeyboardInterrupt: raise
solve_interrupted ==
    /\ in_loop
    /\ ~omit_image(basename(examples[i]))
    /\ \E left \in Leftovers : scratch' = scratch \cup left
    /\ solved' = Append(solved, <<examples[i], "interrupt">>)
    /\ log' = Append(log, "trying")
    /\ pc' = "aborted"
    /\ UNCHANGED <<examples, no_images, fresh, i, images, todo, thumbnails,
                   pages, rendered, thumbed, opened, listed, runs,
                   prev_pages>>

\* a handler that lets the error of the solver through
solve_failed_reraises ==
    /\ pc = "generate_images" /\ i <= Len(examples)
    /\ ~(basename(examples[i]) \in omits)
    /\ \E left \in {{}, {trunk \o vtk_ext}} : scratch' = scratch \cup left
    /\ solved' = Append(solved, <<examples[i], "error">>)
    /\ log' = Append(log, "trying")
    /\ pc' = "aborted"
    /\ UNCHANGED <<examples, no_images, fresh, i, images, todo, thumbnails,
                   pages, rendered, thumbed, opened, listed, runs,
                   prev_pages>>

\* pde_solve raises anything else: problem = None, the notice, and on to
\* the next example
solve_failed ==
    /\ in_loop
    /\ ~omit_image(basename(examples[i]))
    /\ \E left \in Leftovers : scratch' = scratch \cup left
    /\ solved' = Append(solved, <<examples[i], "error">>)
    /\ log' = log \o <<"trying", "***** failed! *****", "...done">>
    /\ i' = i + 1
    /\ UNCHANGED <<examples, no_images, fresh, pc, images, todo, thumbnails,
                   pages, rendered, thumbed, opened, listed, runs,
                   prev_pages>>

\* pde_solve returns a problem and the viewer writes the image of its
\* result file; then remove_files(output_dir) empties the directory
solve_rendered ==
    /\ in_loop
    /\ ~omit_image(basename(examples[i]))
    /\ LET ebase        == ebase_of(examples[i])
           fig_filename == get_fig_filename(ebase, images_dir)[2]
       IN /\ solved' = Append(solved, <<examples[i], "ok">>)
          /\ rendered' = Append(rendered, <<examples[i], fig_filename, "ok">>)
          /\ images' = images \cup {fig_filename}
          /\ log' = log \o <<"trying", "displaying", "...done", "...done">>
    /\ scratch' = {}
    /\ i' = i + 1
    /\ UNCHANGED <<examples, no_images, fresh, pc, todo, thumbnails, pages,
                   thumbed, opened, listed, runs, prev_pages>>

\* pde_solve returns a problem and the viewer raises: nothing catches it
render_failed ==
    /\ in_loop
    /\ ~omit_image(basename(examples[i]))
    /\ \E ts_conf \in BOOLEAN :
         LET ebase        == ebase_of(examples[i])
             fig_filename == get_fig_filename(ebase, images_dir)[2]
             filename     == result_file(ts_conf)
         IN /\ solved' = Append(solved, <<examples[i], "ok">>)
            /\ rendered' = Append(rendered,
                                  <<examples[i], fig_filename, "error">>)
            /\ scratch' = scratch \cup {filename}
            /\ log' = log \o <<"trying", "displaying">>
    /\ pc' = "aborted"
    /\ UNCHANGED <<examples, no_images, fresh, i, images, todo, thumbnails,
                   pages, thumbed, opened, listed, runs, prev_pages>>

(***************************************************************************)
(* generate_thumbnails.                                                    *)
(***************************************************************************)
\* glob.glob(os.path.join(images_dir, '*.png'))
glob_png(files) ==
    {f \in files : /\ dirname(f) = images_dir
                   /\ Len(basename(f)) >= Len(png_ext)
                   /\ From(f, Len(f) - Len(png_ext)) = png_ext}

\* the loop of generate_images ends and generate_thumbnails lists the images
generate_thumbnails ==
    /\ pc = "generate_images"
    /\ i > Len(examples)
    /\ pc' = "generate_thumbnails"
    /\ todo' = glob_png(images)
    /\ UNCHANGED <<examples, no_images, fresh, i, scratch, images,
                   thumbnails, pages, solved, rendered, thumbed, log, opened,
                   listed, runs, prev_pages>>

\* image.thumbnail(fig_filename, thumb_filename, scale=scale)
thumbnail ==
    /\ pc = "generate_thumbnails"
    /\ \E fig_filename \in todo :
         LET thumb_filename == join(thumbnails_dir, basename(fig_filename))
         IN /\ thumbnails' = thumbnails \cup {thumb_filename}
            /\ thumbed' = thumbed \cup
                              {<<fig_filename, thumb_filename, "ok">>}
            /\ todo' = todo \ {fig_filename}
    /\ UNCHANGED <<examples, no_images, fresh, pc, i, scratch, images, pages,
                   solved, rendered, log, opened, listed, runs, prev_pages>>

\* image.thumbnail raises: nothing catches it
thumbnail_failed ==
    /\ pc = "generate_thumbnails"
    /\ \E fig_filename \in todo :
         LET thumb_filename == join(thumbnails_dir, basename(fig_filename))
         IN thumbed' = thumbed \cup
                           {<<fig_filename, thumb_filename, "error">>}
    /\ pc' = "aborted"
    /\ UNCHANGED <<examples, no_images, fresh, i, scratch, images, todo,
                   thumbnails, pages, solved, rendered, log, opened, listed,
                   runs, prev_pages>>

\* the loop of generate_thumbnails ends
thumbnails_done ==
    /\ pc = "generate_thumbnails"
    /\ todo = {}
    /\ pc' = "generate_rst_files"
    /\ UNCHANGED <<examples, no_images, fresh, i, scratch, images, todo,
                   thumbnails, pages, solved, rendered, thumbed, log, opened,
                   listed, runs, prev_pages>>

(***************************************************************************)
(* generate_rst_files, as the last stage of main() and run again on the    *)
(* unchanged corpus.                                                       *)
(***************************************************************************)
rst_run ==
    \E fs \in {generate_rst_files(pages, examples)} :
       /\ pages' = fs.files
       /\ opened' = fs.opened
       /\ listed' = fs.listed
       /\ prev_pages' = pages
       /\ runs' = runs + 1
       /\ pc' = "done"
       /\ UNCHANGED <<examples, no_images, fresh, i, scratch, images, todo,
                      thumbnails, solved, rendered, thumbed, log>>

main_rst ==
    /\ pc = "generate_rst_files"
    /\ rst_run

again_rst ==
    /\ pc = "done"
    /\ runs < MaxRuns
    /\ rst_run

Next ==
    \/ main
    \/ skip_omitted
    \/ solve_interrupted
    \/ solve_failed
    \/ solve_rendered
    \/ render_failed
    \/ generate_thumbnails
    \/ thumbnail
    \/ thumbnail_failed
    \/ thumbnails_done
    \/ main_rst
    \/ again_rst

Spec == Init /\ [][Next]_vars

(***************************************************************************)
(* Properties.                                                             *)
(***************************************************************************)
\* the examples of the corpus that are not in the exclusion list, in the
\* order of discovery, among the first n
Wanted(n) == SelectSeq(SubSeq(examples, 1, n), LAMBDA e : basename(e) \notin omits)

Attempted == [k \in 1..Len(solved) |-> solved[k][1]]

StartPages == IF fresh THEN NoFiles ELSE StalePages
StartImages == IF fresh THEN {} ELSE StaleImages

\* C1: a solve that raises an error other than a user interrupt is caught:
\* a failure notice is reported for each such solve, the example gets no
\* call of the viewer and no image, the run is not aborted by it, and the
\* loop attempts every example that is not excluded, in order, up to where
\* it is, and all of them once the stage has ended.
C1_SolveFailureIsolated ==
    LET errors  == {k \in 1..Len(solved) : solved[k][2] = "error"}
        notices == {k \in 1..Len(log) : log[k] = "***** failed! *****"}
    IN /\ Cardinality(notices) = Cardinality(errors)
       /\ \A k \in errors : \A m \in 1..Len(rendered) :
              rendered[m][1] # solved[k][1]
       /\ images = StartImages \cup
              {rendered[m][2] : m \in {n \in 1..Len(rendered) :
                                          rendered[n][3] = "ok"}}
       /\ pc = "aborted" =>
              \/ \E k \in 1..Len(solved) : solved[k][2] = "interrupt"
              \/ \E m \in 1..Len(rendered) : rendered[m][3] = "error"
              \/ \E t \in thumbed : t[3] = "error"
       /\ pc = "generate_images" => Attempted = Wanted(i - 1)
       /\ (~no_images /\ pc \in {"generate_thumbnails", "generate_rst_files",
                                 "done"})
              => Attempted = Wanted(Len(examples))

\* a solve failed, a later example was attempted after it, and the stage
\* has ended
C1_Witness ==
    /\ pc = "generate_thumbnails"
    /\ \E k \in 1..Len(solved) : solved[k][2] = "error" /\ k < Len(solved)

\* C2: a failure of the viewer for one example never aborts the batch.
C2_RenderFailureIsolated ==
    (\E m \in 1..Len(rendered) : rendered[m][3] = "error") => pc # "aborted"

\* C3: at the start of every iteration of the loop of generate_images the
\* temporary directory holds nothing of an earlier example.
C3_ScratchEmptyAtIteration ==
    pc = "generate_images" => scratch = {}

\* C4: in a run that starts from empty output directories, an example
\* whose file name is in the exclusion list is never given to the solver or
\* the viewer; every image is the image of an example that is not excluded
\* and every thumbnail is made of such an image; no content page is
\* opened for it and no index entry is written for it, and every page of
\* the tree is one the run opened.
C4_OmittedNeverAppears ==
    fresh =>
      LET omitted == {examples[k] : k \in {n \in 1..Len(examples) :
                                             basename(examples[n]) \in omits}}
          shown   == {rendered[m][2] : m \in {n \in 1..Len(rendered) :
                         /\ rendered[n][3] = "ok"
                         /\ rendered[n][1] \notin omitted}}
      IN /\ \A k \in 1..Len(solved) : solved[k][1] \notin omitted
         /\ \A m \in 1..Len(rendered) : rendered[m][1] \notin omitted
         /\ images \subseteq shown
         /\ \A t \in thumbed : t[1] \in shown
         /\ thumbnails \subseteq
                {join(thumbnails_dir, basename(f)) : f \in shown}
         /\ \A k \in 1..Len(opened) :
                opened[k][2][1] = "example" => opened[k][2][2] \notin omitted
         /\ \A k \in 1..Len(listed) : listed[k][1] \notin omitted
         /\ DOMAIN pages = {opened[k][1] : k \in 1..Len(opened)}

\* a whole run with images over a corpus that holds an excluded example and
\* another one, which got its image and its thumbnail
C4_Witness ==
    /\ fresh
    /\ ~no_images
    /\ pc = "done"
    /\ \E k \in 1..Len(examples) : basename(examples[k]) \in omits
    /\ thumbnails # {}

\* the entries of the main index for the keys, in their order
RECURSIVE index_entries(_)
index_entries(keys) ==
    IF keys = <<>> THEN <<>>
    ELSE indent \o Head(keys) \o slash_index_nl \o index_entries(Tail(keys))

\* C5: after generate_rst_files the main index page holds its heading and
\* then one entry for each directory that holds an example that is not
\* excluded, each once, in sorted order of the directories, and nothing else.
C5_MainIndexListsGroups ==
    runs >= 1 =>
      LET groups == {dirname(ebase_of(Wanted(Len(examples))[k])) :
                        k \in 1..Len(Wanted(Len(examples)))}
          keys   == SortSeq(SetToSeq(groups), StrLess)
      IN /\ Len(keys) = Cardinality(groups)
         /\ \A j, k \in 1..Len(keys) : j < k => StrLess(keys[j], keys[k])
         /\ pages[join(rst_dir, index_rst)] =
                index_text(sfepy_name, gallery_title,
                           Repeat(<<"=">>, 27)) \o index_entries(keys)

\* C6: a second run of generate_rst_files on the unchanged corpus leaves
\* the same pages with the same contents as the run before it.
C6_RstIdempotent ==
    runs >= 2 => pages = prev_pages

\* generate_rst_files has run twice over output directories that held
\* pages of an earlier corpus, and wrote pages for examples
C6_Witness ==
    /\ runs = 2
    /\ ~fresh
    /\ Len(opened) >= 3

\* C7: with --no-images nothing is solved, rendered or scaled and no image
\* or thumbnail is written; generate_rst_files is the stage that runs, and
\* when it is done it has opened, and the tree holds, the main index, the
\* index of every directory of examples and the page of every example that
\* is not excluded.
C7_NoImages ==
    no_images =>
      /\ solved = <<>> /\ rendered = <<>> /\ thumbed = {} /\ log = <<>>
      /\ images = StartImages /\ thumbnails = {} /\ scratch = {}
      /\ pc \in {"main", "generate_rst_files", "done"}
      /\ pc = "done" =>
           LET wanted == Wanted(Len(examples))
               did    == {opened[k] : k \in 1..Len(opened)}
           IN /\ <<join(rst_dir, index_rst), <<"main", <<>>>>>> \in did
              /\ \A k \in 1..Len(wanted) :
                   LET ebase == ebase_of(wanted[k])
                       dn    == dirname(ebase)
                       page  == join(join(rst_dir, dn),
                                     SubSeq(basename(ebase), 1,
                                            Len(basename(ebase)) - 3)
                                         \o rst_ext)
                   IN /\ <<join(join(rst_dir, dn), index_rst),
                           <<"directory", dn>>>> \in did
                      /\ <<page, <<"example", wanted[k]>>>> \in did
                      /\ page \in DOMAIN pages
                      /\ join(join(rst_dir, dn), index_rst) \in DOMAIN pages
              /\ \A p \in DOMAIN pages \ DOMAIN StartPages :
                   \E d \in did : d[1] = p

\* a run with --no-images is done and has written pages for examples
C7_Witness ==
    /\ no_images
    /\ pc = "done"
    /\ Len(opened) >= 3

\* C8: two different examples never get the same image file name.
C8_FigFilenameInjective ==
    \A j, k \in 1..Len(rendered) :
        rendered[j][1] # rendered[k][1] => rendered[j][2] # rendered[k][2]

\* C9: once a solve has been interrupted the run is aborted at that
\* solve: it is the last call of the solver, no call of the viewer is for
\* it or comes after it, no thumbnail is made and generate_rst_files does
\* not run.
C9_InterruptAborts ==
    (\E k \in 1..Len(solved) : solved[k][2] = "interrupt") =>
      /\ pc = "aborted"
      /\ solved[Len(solved)][2] = "interrupt"
      /\ \A k \in 1..(Len(solved) - 1) : solved[k][2] # "interrupt"
      /\ \A m \in 1..Len(rendered) :
           \E k \in 1..(Len(solved) - 1) : solved[k][1] = rendered[m][1]
      /\ Attempted = Wanted(i)
      /\ todo = {} /\ thumbed = {} /\ thumbnails = {}
      /\ runs = 0 /\ opened = <<>> /\ listed = <<>> /\ pages = StartPages

\* a solve was interrupted while examples that are not excluded were
\* still to come
C9_Witness ==
    /\ pc = "aborted"
    /\ \E k \in 1..Len(solved) : solved[k][2] = "interrupt"
    /\ \E k \in (i + 1)..Len(examples) : basename(examples[k]) \notin omits

\* C10: in one run of generate_rst_files no two pages are opened on the
\* same file.
C10_PagesDistinct ==
    \A j, k \in 1..Len(opened) : j # k => opened[j][1] # opened[k][1]

====
